---- MODULE Spec2Model ----
(***************************************************************************)
(* Model of the stack machine of route-2/evm-go: the fetch-decode-execute  *)
(* loop `execute`, its gas meter, its opcode table and handlers, in the    *)
(* two variants the repository holds (per-opcode gas cost and flat gas     *)
(* cost).  Stack words are math/big integers; they are modelled as Go      *)
(* represents them, a sign and a little-endian magnitude of limbs, so that *)
(* the 2^256 modulus keeps its true width.                                 *)
(***************************************************************************)
EXTENDS Integers, Sequences, FiniteSets, TLC

(***************************************************************************)
(* Bounds of the model.                                                    *)
(***************************************************************************)
\* the largest number of instruction chunks a generated bytecode is made of
MaxChunks == 3
\* initial gas is drawn from 0..MaxGas (and the budget main() uses)
MaxGas == 3

(***************************************************************************)
(* math/big: nat, an unsigned magnitude as little-endian limbs without     *)
(* leading zero limbs (the empty sequence is 0).  A limb is one byte.      *)
(* The operations are functions, so that their arguments are values, and   *)
(* a loop over the limbs is split in halves to keep the evaluation         *)
(* shallow.                                                                *)
(***************************************************************************)
LimbBits == 8
LimbBase == 2 ^ LimbBits

Limbs == Seq(0..(LimbBase - 1))

\* drop the leading (most significant) zero limbs
natNorm[x \in Limbs] ==
    IF \A i \in 1..Len(x) : x[i] = 0 THEN <<>>
    ELSE SubSeq(x, 1, CHOOSE i \in 1..Len(x) :
                          x[i] # 0 /\ \A j \in (i + 1)..Len(x) : x[j] = 0)

\* -1, 0 or 1 as x < y, x = y, x > y
natCmp[x \in Limbs, y \in Limbs] ==
    IF Len(x) < Len(y) THEN -1
    ELSE IF Len(x) > Len(y) THEN 1
    ELSE IF x = y THEN 0
    ELSE IF \E i \in 1..Len(x) :
                x[i] < y[i] /\ \A j \in (i + 1)..Len(x) : x[j] = y[j]
         THEN -1 ELSE 1

natLimb(x, i) == IF i <= Len(x) THEN x[i] ELSE 0

\* One step of the carry propagation: acc holds the limbs so far followed by
\* the carry; the column col is added to the carry.
natCarryStep[acc \in Seq(Int), col \in Int] ==
    SubSeq(acc, 1, Len(acc) - 1)
        \o <<(col + acc[Len(acc)]) % LimbBase, (col + acc[Len(acc)]) \div LimbBase>>

\* Carry propagation over the columns cols[lo..hi], least significant first.
\* A column may be any integer (a sum of products, or a negative difference).
natCarry[cols \in Seq(Int), lo \in Int, hi \in Int, acc \in Seq(Int)] ==
    IF lo > hi THEN acc
    ELSE IF lo = hi THEN natCarryStep[acc, cols[lo]]
    ELSE natCarry[cols, ((lo + hi) \div 2) + 1, hi,
                  natCarry[cols, lo, (lo + hi) \div 2, acc]]

\* the magnitude whose value is the sum of cols[i] * LimbBase^(i-1), >= 0
natOfCols[cols \in Seq(Int)] == natNorm[natCarry[cols, 1, Len(cols), <<0>>]]

natAdd[x \in Limbs, y \in Limbs] ==
    natOfCols[[i \in 1..(IF Len(x) >= Len(y) THEN Len(x) ELSE Len(y)) |->
                  natLimb(x, i) + natLimb(y, i)]]

\* x - y for x >= y
natSub[x \in Limbs, y \in Limbs] ==
    natOfCols[[i \in 1..Len(x) |-> x[i] - natLimb(y, i)]]

\* x * k for a single limb k
natMulSmall[x \in Limbs, k \in Nat] == natOfCols[[i \in 1..Len(x) |-> x[i] * k]]

\* the sum of x[i] * y[k + 1 - i] for i in lo..hi
RECURSIVE natColSum(_, _, _, _, _)
natColSum(x, y, k, lo, hi) ==
    IF lo > hi THEN 0
    ELSE IF lo = hi THEN x[lo] * y[k + 1 - lo]
    ELSE natColSum(x, y, k, lo, (lo + hi) \div 2)
             + natColSum(x, y, k, ((lo + hi) \div 2) + 1, hi)

natMul[x \in Limbs, y \in Limbs] ==
    IF x = <<>> \/ y = <<>> THEN <<>>
    ELSE natOfCols[[k \in 1..(Len(x) + Len(y)) |->
             natColSum(x, y, k,
                       IF k + 1 - Len(y) >= 1 THEN k + 1 - Len(y) ELSE 1,
                       IF Len(x) <= k THEN Len(x) ELSE k)]]

\* the largest k = base + (some of the bits from `bit` down) with y * k <= r
RECURSIVE natQuoDigit(_, _, _, _)
natQuoDigit(r, y, base, bit) ==
    IF bit = 0 THEN base
    ELSE IF natCmp[natMulSmall[y, base + bit], r] <= 0
         THEN natQuoDigit(r, y, base + bit, bit \div 2)
         ELSE natQuoDigit(r, y, base, bit \div 2)

DivState == [q : Limbs, r : Limbs]

\* the quotient digit k is put after the digits q; cur - y * k is the remainder
natDivPut[q \in Limbs, cur \in Limbs, y \in Limbs, k \in Nat] ==
    [q |-> q \o <<k>>, r |-> natSub[cur, natMulSmall[y, k]]]

\* the digit of the long division by y # 0 whose running value is cur
natDivDigit[q \in Limbs, cur \in Limbs, y \in Limbs] ==
    IF natCmp[cur, y] < 0 THEN [q |-> q \o <<0>>, r |-> cur]
    ELSE natDivPut[q, cur, y, natQuoDigit(cur, y, 0, LimbBase \div 2)]

\* One step of the long division by y # 0: the limb d is brought down to the
\* remainder acc.r.
natDivStep[acc \in DivState, d \in Nat, y \in Limbs] ==
    natDivDigit[acc.q, natNorm[<<d>> \o acc.r], y]

\* Long division by y # 0 of the limbs x[hi] down to x[lo], entered with the
\* quotient digits (most significant first) and the remainder of the limbs
\* above them.
natDivRange[x \in Limbs, y \in Limbs, hi \in Int, lo \in Int, acc \in DivState] ==
    IF lo > hi THEN acc
    ELSE IF lo = hi THEN natDivStep[acc, x[lo], y]
    ELSE natDivRange[x, y, (lo + hi) \div 2, lo,
                     natDivRange[x, y, hi, ((lo + hi) \div 2) + 1, acc]]

natReverse[x \in Limbs] == [i \in 1..Len(x) |-> x[Len(x) + 1 - i]]

natDivResult[d \in DivState] == [q |-> natNorm[natReverse[d.q]], r |-> d.r]

\* quotient and remainder of x by y # 0
natDiv[x \in Limbs, y \in Limbs] ==
    IF natCmp[x, y] < 0 THEN [q |-> <<>>, r |-> x]
    ELSE natDivResult[natDivRange[x, y, Len(x), 1, [q |-> <<>>, r |-> <<>>]]]

\* x * LimbBase^n
natShlLimbs[x \in Limbs, n \in Nat] ==
    IF x = <<>> THEN <<>>
    ELSE [i \in 1..(Len(x) + n) |-> IF i <= n THEN 0 ELSE x[i - n]]

\* x * 2^s
natShl[x \in Limbs, s \in Nat] ==
    IF s % LimbBits = 0 THEN natShlLimbs[x, s \div LimbBits]
    ELSE natShlLimbs[natMulSmall[x, 2 ^ (s % LimbBits)], s \div LimbBits]

(***************************************************************************)
(* math/big: Int, a sign and a magnitude.                                  *)
(***************************************************************************)
BigInts == [neg : BOOLEAN, abs : Limbs]

bigInt[neg \in BOOLEAN, abs \in Limbs] == [neg |-> (abs # <<>>) /\ neg, abs |-> abs]

\* big.NewInt(v) and new(big.Int).SetUint64(v) for a byte v
bigNewInt[v \in 0..(LimbBase - 1)] == bigInt[FALSE, natNorm[<<v>>]]

bigAdd[x \in BigInts, y \in BigInts] ==
    IF x.neg = y.neg THEN bigInt[x.neg, natAdd[x.abs, y.abs]]
    ELSE IF natCmp[x.abs, y.abs] >= 0 THEN bigInt[x.neg, natSub[x.abs, y.abs]]
    ELSE bigInt[~x.neg, natSub[y.abs, x.abs]]

bigSub[x \in BigInts, y \in BigInts] ==
    IF x.neg # y.neg THEN bigInt[x.neg, natAdd[x.abs, y.abs]]
    ELSE IF natCmp[x.abs, y.abs] >= 0 THEN bigInt[x.neg, natSub[x.abs, y.abs]]
    ELSE bigInt[~x.neg, natSub[y.abs, x.abs]]

bigMul[x \in BigInts, y \in BigInts] == bigInt[x.neg # y.neg, natMul[x.abs, y.abs]]

\* the signs of a truncated quotient and remainder
bigQuoRemSigned[xneg \in BOOLEAN, yneg \in BOOLEAN, d \in DivState] ==
    [q |-> bigInt[xneg # yneg, d.q], r |-> bigInt[xneg, d.r]]

\* truncated quotient and remainder, y # 0
bigQuoRem[x \in BigInts, y \in BigInts] ==
    bigQuoRemSigned[x.neg, y.neg, natDiv[x.abs, y.abs]]

QuoRems == [q : BigInts, r : BigInts]

\* the Euclidean quotient from the truncated quotient and remainder d
bigDivAdjust[d \in QuoRems, y \in BigInts] ==
    IF d.r.neg
    THEN IF y.neg THEN bigAdd[d.q, bigNewInt[1]] ELSE bigSub[d.q, bigNewInt[1]]
    ELSE d.q

\* Euclidean quotient, y # 0
bigDiv[x \in BigInts, y \in BigInts] == bigDivAdjust[bigQuoRem[x, y], y]

\* the Euclidean modulus from the truncated remainder r
bigModAdjust[r \in BigInts, y \in BigInts] ==
    IF r.neg
    THEN IF y.neg THEN bigSub[r, y] ELSE bigAdd[r, y]
    ELSE r

\* Euclidean modulus, y # 0: the result is in [0, |y|)
bigMod[x \in BigInts, y \in BigInts] == bigModAdjust[bigQuoRem[x, y].r, y]

bigLsh[x \in BigInts, s \in Nat] == bigInt[x.neg, natShl[x.abs, s]]

bigCmp[x \in BigInts, y \in BigInts] ==
    IF x.neg = y.neg
    THEN IF x.neg THEN 0 - natCmp[x.abs, y.abs] ELSE natCmp[x.abs, y.abs]
    ELSE IF x.neg THEN -1 ELSE 1

\* bigPow(exp) = 1 << exp
bigPow[exp \in Nat] == bigLsh[bigNewInt[1], exp]

(***************************************************************************)
(* The machine.  `variant` tells which of the two source files runs:       *)
(* "table" charges the gas cost of the opcode table entry, "flat" charges  *)
(* 3 for every table opcode.  `outcome` is where the call of execute       *)
(* stands: still in its loop, returned, or ended by a panic (named by the  *)
(* panic's message).                                                       *)
(***************************************************************************)
VARIABLES variant, bytecode, initialGas, stack, pc, gas, stopExecution, outcome

vars == <<variant, bytecode, initialGas, stack, pc, gas, stopExecution, outcome>>

\* opcode bytes
STOP == 0
ADD == 1
MUL == 2
SUB == 3
DIV == 4
PUSH1 == 96
\* the generic push range 0x60..0x7f and its base 0x5f
PushLo == 96
PushHi == 127
PushBase == 95
\* width of a stack word
WordBits == 256
\* the cost the flat variant charges
FlatCost == 3

\* outcomes of execute
Running == "running"
Returned == "returned"
OutOfGas == "Out of gas"
UnexpectedEnd == "Unexpected end of bytecode"
InvalidOpcode == "Invalid opcode"
\* the Go runtime's panic on an index outside a slice
IndexOutOfRange == "index out of range"
NoPanic == "none"

Panics == {OutOfGas, UnexpectedEnd, InvalidOpcode, IndexOutOfRange}

\* the opcode table built by NewEVM
opcodes ==
    (STOP  :> [fn |-> "opStop",  gasCost |-> 0]) @@
    (ADD   :> [fn |-> "opAdd",   gasCost |-> 3]) @@
    (MUL   :> [fn |-> "opMul",   gasCost |-> 5]) @@
    (SUB   :> [fn |-> "opSub",   gasCost |-> 3]) @@
    (DIV   :> [fn |-> "opDiv",   gasCost |-> 5]) @@
    (PUSH1 :> [fn |-> "opPush1", gasCost |-> 3])

\* faulty variant: the flat variant charges 5
gasCostOf_five(v, op) == IF v = "table" THEN opcodes[op].gasCost ELSE 5

\* the gas execute charges for the table opcode op
gasCostOf(v, op) == IF v = "table" THEN opcodes[op].gasCost ELSE FlatCost

\* bytecode[i], Go's index from 0
byteAt(code, i) == code[i + 1]

\* faulty variant: the charge is made without the check of the remaining gas
consumeGas_unchecked(evm, amount) ==
    [evm |-> [evm EXCEPT !.gas = @ - amount], panic |-> NoPanic]

\* faulty variant: the amount is added to the remaining gas
consumeGas_credit(evm, amount) ==
    IF evm.gas < amount
    THEN [evm |-> evm, panic |-> OutOfGas]
    ELSE [evm |-> [evm EXCEPT !.gas = @ + amount], panic |-> NoPanic]

consumeGas(evm, amount) ==
    IF evm.gas < amount
    THEN [evm |-> evm, panic |-> OutOfGas]
    ELSE [evm |-> [evm EXCEPT !.gas = @ - amount], panic |-> NoPanic]

opStop(evm, code) == [evm |-> evm, stop |-> TRUE, panic |-> NoPanic]

\* faulty variant: the sum is pushed without the reduction modulo 2^256
opAdd_noMod(evm, code) ==
    IF Len(evm.stack) < 2
    THEN [evm |-> evm, stop |-> FALSE, panic |-> IndexOutOfRange]
    ELSE LET n1     == evm.stack[Len(evm.stack)]
             n2     == evm.stack[Len(evm.stack) - 1]
             rest   == SubSeq(evm.stack, 1, Len(evm.stack) - 2)
             result == bigAdd[n1, n2]
         IN  [evm |-> [evm EXCEPT !.stack = Append(rest, result)],
              stop |-> FALSE, panic |-> NoPanic]

opAdd(evm, code) ==
    IF Len(evm.stack) < 2
    THEN [evm |-> evm, stop |-> FALSE, panic |-> IndexOutOfRange]
    ELSE LET n1     == evm.stack[Len(evm.stack)]
             n2     == evm.stack[Len(evm.stack) - 1]
             rest   == SubSeq(evm.stack, 1, Len(evm.stack) - 2)
             result == bigMod[bigAdd[n1, n2], bigPow[WordBits]]
         IN  [evm |-> [evm EXCEPT !.stack = Append(rest, result)],
              stop |-> FALSE, panic |-> NoPanic]

\* faulty variant: the product is pushed without the reduction modulo 2^256
opMul_noMod(evm, code) ==
    IF Len(evm.stack) < 2
    THEN [evm |-> evm, stop |-> FALSE, panic |-> IndexOutOfRange]
    ELSE LET n1     == evm.stack[Len(evm.stack)]
             n2     == evm.stack[Len(evm.stack) - 1]
             rest   == SubSeq(evm.stack, 1, Len(evm.stack) - 2)
             result == bigMul[n1, n2]
         IN  [evm |-> [evm EXCEPT !.stack = Append(rest, result)],
              stop |-> FALSE, panic |-> NoPanic]

opMul(evm, code) ==
    IF Len(evm.stack) < 2
    THEN [evm |-> evm, stop |-> FALSE, panic |-> IndexOutOfRange]
    ELSE LET n1     == evm.stack[Len(evm.stack)]
             n2     == evm.stack[Len(evm.stack) - 1]
             rest   == SubSeq(evm.stack, 1, Len(evm.stack) - 2)
             result == bigMod[bigMul[n1, n2], bigPow[WordBits]]
         IN  [evm |-> [evm EXCEPT !.stack = Append(rest, result)],
              stop |-> FALSE, panic |-> NoPanic]

\* faulty variant: the operands are subtracted in the other order
opSub_swapped(evm, code) ==
    IF Len(evm.stack) < 2
    THEN [evm |-> evm, stop |-> FALSE, panic |-> IndexOutOfRange]
    ELSE LET n1     == evm.stack[Len(evm.stack)]
             n2     == evm.stack[Len(evm.stack) - 1]
             rest   == SubSeq(evm.stack, 1, Len(evm.stack) - 2)
             result == bigMod[bigSub[n1, n2], bigPow[WordBits]]
         IN  [evm |-> [evm EXCEPT !.stack = Append(rest, result)],
              stop |-> FALSE, panic |-> NoPanic]

opSub(evm, code) ==
    IF Len(evm.stack) < 2
    THEN [evm |-> evm, stop |-> FALSE, panic |-> IndexOutOfRange]
    ELSE LET n1     == evm.stack[Len(evm.stack)]
             n2     == evm.stack[Len(evm.stack) - 1]
             rest   == SubSeq(evm.stack, 1, Len(evm.stack) - 2)
             result == bigMod[bigSub[n2, n1], bigPow[WordBits]]
         IN  [evm |-> [evm EXCEPT !.stack = Append(rest, result)],
              stop |-> FALSE, panic |-> NoPanic]

\* faulty variant: a zero divisor is passed to Div, which panics
opDiv_zeroPanics(evm, code) ==
    IF Len(evm.stack) < 2
    THEN [evm |-> evm, stop |-> FALSE, panic |-> IndexOutOfRange]
    ELSE LET n1     == evm.stack[Len(evm.stack)]
             n2     == evm.stack[Len(evm.stack) - 1]
             rest   == SubSeq(evm.stack, 1, Len(evm.stack) - 2)
         IN  IF bigCmp[n1, bigNewInt[0]] = 0
             THEN [evm |-> [evm EXCEPT !.stack = rest],
                   stop |-> FALSE, panic |-> "division by zero"]
             ELSE [evm |-> [evm EXCEPT !.stack =
                               Append(rest, bigMod[bigDiv[n2, n1], bigPow[WordBits]])],
                   stop |-> FALSE, panic |-> NoPanic]

opDiv(evm, code) ==
    IF Len(evm.stack) < 2
    THEN [evm |-> evm, stop |-> FALSE, panic |-> IndexOutOfRange]
    ELSE LET n1     == evm.stack[Len(evm.stack)]
             n2     == evm.stack[Len(evm.stack) - 1]
             rest   == SubSeq(evm.stack, 1, Len(evm.stack) - 2)
             quo    == IF bigCmp[n1, bigNewInt[0]] # 0
                       THEN bigDiv[n2, n1]
                       ELSE bigNewInt[0]
             result == bigMod[quo, bigPow[WordBits]]
         IN  [evm |-> [evm EXCEPT !.stack = Append(rest, result)],
              stop |-> FALSE, panic |-> NoPanic]

\* faulty variant: the handler steps pc back instead of past the immediate byte
opPush1_rewind(evm, code) ==
    IF evm.pc >= Len(code)
    THEN [evm |-> evm, stop |-> FALSE, panic |-> UnexpectedEnd]
    ELSE LET value == bigNewInt[byteAt(code, evm.pc)]
         IN  [evm |-> [evm EXCEPT !.stack = Append(@, value), !.pc = @ - 1],
              stop |-> FALSE, panic |-> NoPanic]

\* faulty variant: the pushed word takes the place of the top of the stack
opPush1_replaceTop(evm, code) ==
    IF evm.pc >= Len(code)
    THEN [evm |-> evm, stop |-> FALSE, panic |-> UnexpectedEnd]
    ELSE LET value == bigNewInt[byteAt(code, evm.pc)]
         IN  [evm |-> [evm EXCEPT
                          !.stack = IF @ = <<>> THEN <<value>>
                                    ELSE SubSeq(@, 1, Len(@) - 1) \o <<value>>,
                          !.pc = @ + 1],
              stop |-> FALSE, panic |-> NoPanic]

opPush1(evm, code) ==
    IF evm.pc >= Len(code)
    THEN [evm |-> evm, stop |-> FALSE, panic |-> UnexpectedEnd]
    ELSE LET value == bigNewInt[byteAt(code, evm.pc)]
         IN  [evm |-> [evm EXCEPT !.stack = Append(@, value), !.pc = @ + 1],
              stop |-> FALSE, panic |-> NoPanic]

\* opcode.fn(evm, bytecode)
callFn(fn, evm, code) ==
    CASE fn = "opStop"  -> opStop(evm, code)
      [] fn = "opAdd"   -> opAdd(evm, code)
      [] fn = "opMul"   -> opMul(evm, code)
      [] fn = "opSub"   -> opSub(evm, code)
      [] fn = "opDiv"   -> opDiv(evm, code)
      [] fn = "opPush1" -> opPush1(evm, code)

PushState == [value : BigInts, panic : STRING]

\* One round of the loop of the generic push: the accumulator is shifted by
\* a byte and bytecode[idx] is added; a read past the end of the bytecode
\* panics, and no round follows a panic.
pushStep[acc \in PushState, code \in Limbs, idx \in Nat] ==
    IF acc.panic # NoPanic THEN acc
    ELSE IF idx >= Len(code)
    THEN [value |-> acc.value, panic |-> IndexOutOfRange]
    ELSE [value |-> bigAdd[bigLsh[acc.value, LimbBits], bigNewInt[byteAt(code, idx)]],
          panic |-> NoPanic]

\* the rounds i = lo..hi of the loop of the generic push, reading at pc + i
pushLoop[code \in Limbs, p \in Nat, lo \in Int, hi \in Int, acc \in PushState] ==
    IF lo > hi THEN acc
    ELSE IF lo = hi THEN pushStep[acc, code, p + lo]
    ELSE pushLoop[code, p, ((lo + hi) \div 2) + 1, hi,
                  pushLoop[code, p, lo, (lo + hi) \div 2, acc]]

\* faulty variant: pc is moved past the immediate bytes before they are read
pushValue_advanceFirst(evm, numBytes, loop) ==
    IF loop.panic # NoPanic
    THEN [evm |-> [evm EXCEPT !.pc = @ + numBytes],
          stop |-> FALSE, panic |-> loop.panic]
    ELSE [evm |-> [evm EXCEPT !.stack = Append(@, loop.value),
                              !.pc = @ + numBytes],
          stop |-> FALSE, panic |-> NoPanic]

\* after the loop: the value is pushed and pc moves past the immediate bytes
pushValue(evm, numBytes, loop) ==
    IF loop.panic # NoPanic
    THEN [evm |-> evm, stop |-> FALSE, panic |-> loop.panic]
    ELSE [evm |-> [evm EXCEPT !.stack = Append(@, loop.value),
                              !.pc = @ + numBytes],
          stop |-> FALSE, panic |-> NoPanic]

\* faulty variant: the number of immediate bytes is counted from 0x60
genericPush_offByOne(evm, code, op) ==
    pushValue(evm, op - PushLo,
              pushLoop[code, evm.pc, 0, op - PushLo - 1,
                       [value |-> bigNewInt[0], panic |-> NoPanic]])

\* the else branch of execute for an opcode in 0x60..0x7f
genericPush(evm, code, op) ==
    pushValue(evm, op - PushBase,
              pushLoop[code, evm.pc, 0, op - PushBase - 1,
                       [value |-> bigNewInt[0], panic |-> NoPanic]])

\* faulty variant: an unknown opcode is skipped
invalidOpcode_skip(evm, op) == [evm |-> evm, stop |-> FALSE, panic |-> NoPanic]

\* faulty variant: the failure discards the operand stack
invalidOpcode_rollback(evm, op) ==
    [evm |-> [evm EXCEPT !.stack = <<>>], stop |-> FALSE, panic |-> InvalidOpcode]

\* the panic of execute for an opcode that is no table key and no push
invalidOpcode(evm, op) == [evm |-> evm, stop |-> FALSE, panic |-> InvalidOpcode]

\* faulty variant: the handler of a table opcode runs before the charge
executeRound_handlerFirst(v, evm, code) ==
    LET op      == byteAt(code, evm.pc)
        fetched == [evm EXCEPT !.pc = @ + 1]
    IN  IF op \in DOMAIN opcodes
        THEN LET ran     == callFn(opcodes[op].fn, fetched, code)
                 charged == consumeGas(ran.evm, gasCostOf(v, op))
             IN  IF ran.panic # NoPanic THEN ran
                 ELSE IF charged.panic # NoPanic
                 THEN [evm |-> charged.evm, stop |-> FALSE, panic |-> charged.panic]
                 ELSE [evm |-> charged.evm, stop |-> ran.stop, panic |-> NoPanic]
        ELSE IF PushLo <= op /\ op <= PushHi
        THEN genericPush(fetched, code, op)
        ELSE invalidOpcode(fetched, op)

\* One round of the loop of execute, entered with the loop condition true.
executeRound(v, evm, code) ==
    LET op      == byteAt(code, evm.pc)
        fetched == [evm EXCEPT !.pc = @ + 1]
    IN  IF op \in DOMAIN opcodes
        THEN LET charged == consumeGas(fetched, gasCostOf(v, op))
             IN  IF charged.panic # NoPanic
                 THEN [evm |-> charged.evm, stop |-> FALSE, panic |-> charged.panic]
                 ELSE callFn(opcodes[op].fn, charged.evm, code)
        ELSE IF PushLo <= op /\ op <= PushHi
        THEN genericPush(fetched, code, op)
        ELSE invalidOpcode(fetched, op)

\* the EVM fields execute works on, and the result of a round
EVMs == [stack : Seq(BigInts), pc : Nat, gas : Int]
Rounds == [evm : EVMs, stop : BOOLEAN, panic : STRING]

\* execute as a function: the loop entered after a round that left st; it
\* ends with the panic of the round, or returns when the loop condition is
\* false, and else runs the next round
execute[v \in {"table", "flat"}, code \in Limbs, st \in Rounds] ==
    IF st.panic # NoPanic
    THEN [outcome |-> st.panic, stack |-> st.evm.stack,
          pc |-> st.evm.pc, gas |-> st.evm.gas]
    ELSE IF ~(st.evm.pc < Len(code) /\ ~st.stop)
    THEN [outcome |-> Returned, stack |-> st.evm.stack,
          pc |-> st.evm.pc, gas |-> st.evm.gas]
    ELSE execute[v, code, executeRound(v, st.evm, code)]

(***************************************************************************)
(* Inputs: the bytecode is a concatenation of at most MaxChunks chunks, or *)
(* the program of main(), or one of a few programs with other immediates;  *)
(* the initial gas is at most MaxGas, or main()'s.                         *)
(***************************************************************************)
MainGas == 1000
MainBytecode == <<PUSH1, 5, PUSH1, 5, MUL, STOP>>

\* PUSH32 followed by 32 bytes 0xff: the largest word
Push32Max == <<PushHi>> \o [i \in 1..32 |-> LimbBase - 1]

\* the table opcodes, PUSH1 with an immediate (0 and 3) and without, PUSH2
\* without its immediate, PUSH32 of the largest word, and the byte 0x50 that is
\* no opcode; a chunk that lacks its immediate takes it from the next chunk
Chunks ==
    { <<STOP>>, <<ADD>>, <<MUL>>, <<SUB>>, <<DIV>>,
      <<PUSH1, 0>>, <<PUSH1, 3>>,
      <<PUSH1>>, <<PushLo + 1>>, Push32Max, <<80>> }

\* programs with other immediates: PUSH1 10; PUSH1 3; SUB; STOP, then
\* PUSH1 0; PUSH1 7; DIV; STOP, then PUSH2 0x01 0x02, and a program whose
\* arithmetic runs above a third word: PUSH1 7; PUSH1 10; PUSH1 3; DIV; ADD
Examples ==
    { <<PUSH1, 10, PUSH1, 3, SUB, STOP>>,
      <<PUSH1, 0, PUSH1, 7, DIV, STOP>>,
      <<PushLo + 1, 1, 2>>,
      <<PUSH1, 7, PUSH1, 10, PUSH1, 3, DIV, ADD>> }

RECURSIVE Programs(_)
Programs(n) ==
    IF n = 0 THEN {<<>>}
    ELSE LET shorter == Programs(n - 1)
         IN  shorter \cup {p \o c : p \in shorter, c \in Chunks}

NewEVM(g) ==
    /\ stack = <<>>
    /\ pc = 0
    /\ gas = g

Init ==
    /\ variant \in {"table", "flat"}
    /\ bytecode \in Programs(MaxChunks) \cup {MainBytecode} \cup Examples
    /\ initialGas \in (0..MaxGas) \cup {MainGas}
    /\ NewEVM(initialGas)
    /\ stopExecution = FALSE
    /\ outcome = Running

LoopCond == pc < Len(bytecode) /\ ~stopExecution

thisEVM == [stack |-> stack, pc |-> pc, gas |-> gas]

opAt == byteAt(bytecode, pc)

\* the state after a round of the loop
Commit(r) ==
    /\ stack' = r.evm.stack
    /\ pc' = r.evm.pc
    /\ gas' = r.evm.gas
    /\ stopExecution' = r.stop
    /\ outcome' = IF r.panic = NoPanic THEN Running ELSE r.panic
    /\ UNCHANGED <<variant, bytecode, initialGas>>

\* a round whose opcode is a key of the opcode table
ExecTableOp ==
    /\ outcome = Running
    /\ LoopCond
    /\ opAt \in DOMAIN opcodes
    /\ \E r \in {executeRound(variant, thisEVM, bytecode)} : Commit(r)

\* a round whose opcode is a generic push
ExecGenericPush ==
    /\ outcome = Running
    /\ LoopCond
    /\ opAt \notin DOMAIN opcodes
    /\ PushLo <= opAt /\ opAt <= PushHi
    /\ \E r \in {executeRound(variant, thisEVM, bytecode)} : Commit(r)

\* a round whose opcode is neither
ExecInvalid ==
    /\ outcome = Running
    /\ LoopCond
    /\ opAt \notin DOMAIN opcodes
    /\ ~(PushLo <= opAt /\ opAt <= PushHi)
    /\ \E r \in {executeRound(variant, thisEVM, bytecode)} : Commit(r)

\* faulty variant: leaving the loop is reported as a failure
Return_asError ==
    /\ outcome = Running
    /\ ~LoopCond
    /\ outcome' = UnexpectedEnd
    /\ UNCHANGED <<variant, bytecode, initialGas, stack, pc, gas, stopExecution>>

\* the loop condition is false: execute returns
Return ==
    /\ outcome = Running
    /\ ~LoopCond
    /\ outcome' = Returned
    /\ UNCHANGED <<variant, bytecode, initialGas, stack, pc, gas, stopExecution>>

Next == ExecTableOp \/ ExecGenericPush \/ ExecInvalid \/ Return

Spec == Init /\ [][Next]_vars

\* execute is a plain loop on one thread: it keeps taking its next step
LiveSpec == Spec /\ WF_vars(Next)

TypeOK ==
    /\ variant \in {"table", "flat"}
    /\ pc \in 0..Len(bytecode)
    /\ gas \in 0..MainGas
    /\ stopExecution \in BOOLEAN
    /\ outcome \in {Running, Returned} \cup Panics

(***************************************************************************)
(* The claims.  A claim about what one round does is an action formula     *)
(* over the state in which the opcode is fetched and the state after the   *)
(* round.                                                                  *)
(***************************************************************************)
\* the round about to run fetches an opcode of the set ops
Fetching(ops) == outcome = Running /\ LoopCond /\ opAt \in ops

TableKeys == {0, 1, 2, 3, 4, 96}
Arithmetic == {1, 2, 3, 4}
GenericPushes == 97..127

\* the failure a handler short of operands is to report
StackUnderflow == "StackUnderflow"

\* w is a word: an integer in [0, 2^256)
InWord(w) == ~w.neg /\ natCmp[w.abs, bigPow[256].abs] < 0

\* the word 2^256 - 1
MaxWord == bigInt[FALSE, [i \in 1..32 |-> 255]]

\* C1: in every reachable state every element of the operand stack is an
\* integer in [0, 2^256), whichever opcode pushed it.
C1_StackInRange == \A i \in 1..Len(stack) : InWord(stack[i])

\* 2^256 - 1 was pushed twice and the product has been reduced to 1
C1_Witness ==
    /\ bytecode = Push32Max \o Push32Max \o <<MUL>>
    /\ outcome = Returned
    /\ stack = <<bigNewInt[1]>>

\* the static costs the claim C2 lists
ClaimedCost == (0 :> 0) @@ (1 :> 3) @@ (2 :> 5) @@ (3 :> 3) @@ (4 :> 5) @@ (96 :> 3)

\* the opcodes a run of code executes from index i on are all table opcodes
RECURSIVE OnlyTableOps(_, _)
OnlyTableOps(code, i) ==
    IF i >= Len(code) THEN TRUE
    ELSE IF byteAt(code, i) = 0 THEN TRUE
    ELSE IF byteAt(code, i) = 96 THEN OnlyTableOps(code, i + 2)
    ELSE byteAt(code, i) \in TableKeys /\ OnlyTableOps(code, i + 1)

\* the sum of the claimed costs of the opcodes such a run executes
RECURSIVE ClaimedCostSum(_, _)
ClaimedCostSum(code, i) ==
    IF i >= Len(code) THEN 0
    ELSE IF byteAt(code, i) = 0 THEN ClaimedCost[0]
    ELSE IF byteAt(code, i) = 96 THEN ClaimedCost[96] + ClaimedCostSum(code, i + 2)
    ELSE ClaimedCost[byteAt(code, i)] + ClaimedCostSum(code, i + 1)

\* C2: a run of table opcodes that returns has consumed the sum of the static
\* costs of the opcodes it executed (STOP 0, ADD 3, MUL 5, SUB 3, DIV 5,
\* PUSH1 3); PUSH1 5; PUSH1 5; MUL; STOP ends with stack [25] and 11 consumed.
C2_GasIsSumOfCosts ==
    /\ (outcome = Returned /\ OnlyTableOps(bytecode, 0))
          => initialGas - gas = ClaimedCostSum(bytecode, 0)
    /\ (outcome = Returned /\ bytecode = <<96, 5, 96, 5, 2, 0>>)
          => (stack = <<bigNewInt[25]>> /\ initialGas - gas = 11)

\* C3: a table opcode fetched with less gas than execute charges for it ends
\* the run with "Out of gas"; its handler is not run, and the stack and the
\* remaining gas are what they were before the fetch.
C3_OutOfGas ==
    [][ (Fetching(TableKeys) /\ gas < gasCostOf(variant, opAt))
            => /\ outcome' = OutOfGas
               /\ stack' = stack
               /\ gas' = gas
               /\ pc' = pc + 1
               /\ stopExecution' = FALSE ]_vars

\* ADD was fetched with gas 2 and two operands, which are still there
C3_Witness ==
    /\ outcome = OutOfGas
    /\ gas = 2
    /\ byteAt(bytecode, pc - 1) = 1
    /\ stack = <<MaxWord, MaxWord>>

\* C4: ADD, MUL, SUB or DIV fetched with enough gas and fewer than two
\* operands ends the run with the failure StackUnderflow, and the stack is
\* left as it was.
C4_StackUnderflow ==
    [][ (Fetching(Arithmetic) /\ gas >= gasCostOf(variant, opAt) /\ Len(stack) < 2)
            => (outcome' = StackUnderflow /\ stack' = stack) ]_vars

\* the bytes after the opcode at pc are fewer than n
TruncatedAfter(n) == Len(bytecode) - (pc + 1) < n

\* C5: PUSH1 with no byte after it, and a generic PUSHn with fewer than
\* n = op - 0x5f bytes after it, end the run with "Unexpected end of
\* bytecode" and push nothing.
C5_UnexpectedEnd ==
    [][ (\/ (Fetching({96}) /\ gas >= gasCostOf(variant, 96) /\ TruncatedAfter(1))
         \/ (Fetching(GenericPushes) /\ TruncatedAfter(opAt - 95)))
            => (outcome' = UnexpectedEnd /\ stack' = stack) ]_vars

\* C6: a generic push that succeeds lowers the remaining gas, and with no gas
\* left it fails with "Out of gas" and pushes nothing.
C6_GenericPushCharged ==
    [][ /\ (Fetching(GenericPushes) /\ outcome' = Running) => gas' < gas
        /\ (Fetching(GenericPushes) /\ gas = 0)
              => (outcome' = OutOfGas /\ stack' = stack) ]_vars

\* C7: a fetched byte that is no table key and outside 0x60..0x7f ends the
\* run with "Invalid opcode"; the stack and the remaining gas are unchanged.
C7_InvalidOpcode ==
    [][ (outcome = Running /\ LoopCond /\ opAt \notin TableKeys
            /\ ~(96 <= opAt /\ opAt <= 127))
            => (outcome' = InvalidOpcode /\ stack' = stack /\ gas' = gas) ]_vars

\* 0x50 was fetched after a push; the pushed word and the gas are intact
C7_Witness ==
    /\ outcome = InvalidOpcode
    /\ byteAt(bytecode, pc - 1) = 80
    /\ stack = <<bigNewInt[3]>>
    /\ gas = initialGas - 3

\* C8: execute reaches a terminal state, since a round that does not end the
\* run moves pc forward.
C8_Terminates ==
    /\ [][ (outcome = Running /\ outcome' = Running) => pc' > pc ]_vars
    /\ <>(outcome # Running)

\* a run of four rounds has returned
C8_Witness ==
    /\ outcome = Returned
    /\ bytecode = <<96, 5, 96, 5, 2, 0>>
    /\ pc = 6

\* C9: when pc has reached the end of the bytecode and no STOP has run,
\* execute returns, with the state as it is; on empty bytecode it returns with
\* an empty stack, pc = 0 and the initial gas.
C9_EndOfBytecode ==
    /\ [][ (outcome = Running /\ pc >= Len(bytecode) /\ ~stopExecution)
              => (outcome' = Returned /\ stack' = stack /\ pc' = pc /\ gas' = gas) ]_vars
    /\ []( (bytecode = <<>> /\ outcome # Running)
              => (outcome = Returned /\ stack = <<>> /\ pc = 0 /\ gas = initialGas) )

\* a program without STOP has run to its end and returned
C9_Witness ==
    /\ outcome = Returned
    /\ ~stopExecution
    /\ bytecode = <<96, 3, 96, 3, 1>>
    /\ pc = 5
    /\ stack = <<bigNewInt[6]>>

\* C10: STOP is free and terminal: fetched with any remaining gas it succeeds
\* and leaves the stack and the gas as they were, and after it execute
\* returns without another fetch.
C10_Stop ==
    [][ /\ Fetching({0})
            => (outcome' = Running /\ stopExecution' /\ stack' = stack /\ gas' = gas)
        /\ (outcome = Running /\ stopExecution)
            => (outcome' = Returned /\ stack' = stack /\ gas' = gas /\ pc' = pc) ]_vars

\* the round about to run fetches an arithmetic opcode of ops with the gas
\* it is charged and two operands on the stack
Operating(ops) ==
    Fetching(ops) /\ gas >= gasCostOf(variant, opAt) /\ Len(stack) >= 2

\* the operands of the round about to run: n1 is the top, n2 the next
TopN1 == stack[Len(stack)]
TopN2 == stack[Len(stack) - 1]

\* the magnitude of 2^256
TwoTo256 == [i \in 1..33 |-> IF i = 33 THEN 1 ELSE 0]

\* the word r is a - b modulo 2^256, for words a and b: r + b is a or a + 2^256
IsDifference(r, a, b) ==
    /\ InWord(r)
    /\ \/ natAdd[r.abs, b.abs] = a.abs
       \/ natAdd[r.abs, b.abs] = natAdd[a.abs, TwoTo256]

\* C11: SUB pops the top n1 and the next element n2 and pushes (n2 - n1) mod
\* 2^256: when n1 > n2 the result is the word 2^256 - (n1 - n2), and
\* PUSH1 10; PUSH1 3; SUB yields 7.
C11_SubOrder ==
    /\ [][ Operating({3})
             => /\ outcome' = Running
                /\ Len(stack') = Len(stack) - 1
                /\ IsDifference(stack'[Len(stack')], TopN2, TopN1)
                /\ (natCmp[TopN1.abs, TopN2.abs] > 0)
                      => natAdd[stack'[Len(stack')].abs, natSub[TopN1.abs, TopN2.abs]]
                           = TwoTo256 ]_vars
    /\ []( (bytecode = <<96, 10, 96, 3, 3, 0>> /\ outcome = Returned)
              => stack = <<bigNewInt[7]>> )

\* PUSH1 0; PUSH1 3; SUB has wrapped 0 - 3 to 2^256 - 3
C11_Witness ==
    /\ outcome = Returned
    /\ bytecode = <<96, 0, 96, 3, 3>>
    /\ Len(stack) = 1
    /\ InWord(stack[1])
    /\ natAdd[stack[1].abs, <<3>>] = TwoTo256

\* the word q is floor(a / b) for words a and b # 0: q * b <= a < q * b + b
IsQuotient(q, a, b) ==
    /\ InWord(q)
    /\ natCmp[natMul[q.abs, b.abs], a.abs] <= 0
    /\ natCmp[a.abs, natAdd[natMul[q.abs, b.abs], b.abs]] < 0

\* C12: DIV pops the divisor n1 (the top) and the dividend n2; it pushes 0
\* when n1 = 0 and floor(n2 / n1) otherwise, raises no failure, and the run
\* goes on with the next opcode.
C12_Div ==
    [][ Operating({4})
          => /\ outcome' = Running
             /\ ~stopExecution'
             /\ pc' = pc + 1
             /\ Len(stack') = Len(stack) - 1
             /\ IF TopN1.abs = <<>>
                THEN stack'[Len(stack')] = bigNewInt[0]
                ELSE IsQuotient(stack'[Len(stack')], TopN2, TopN1) ]_vars

\* PUSH1 3; PUSH1 0; DIV has divided 3 by 0 and pushed 0
C12_Witness ==
    /\ outcome = Returned
    /\ bytecode = <<96, 3, 96, 0, 4>>
    /\ pc = 5
    /\ stack = <<bigNewInt[0]>>

\* the limbs of x below 2^256, without leading zero limbs
LowWord(x) == natNorm[SubSeq(x, 1, IF Len(x) < 32 THEN Len(x) ELSE 32)]

\* the word r is the magnitude x modulo 2^256
IsLowWordOf(r, x) == InWord(r) /\ r.abs = LowWord(x)

\* the stack with its two top elements exchanged
SwappedTop ==
    [thisEVM EXCEPT !.stack = SubSeq(stack, 1, Len(stack) - 2) \o <<TopN1, TopN2>>,
                    !.pc = pc + 1,
                    !.gas = gas - gasCostOf(variant, opAt)]

\* C13: ADD pushes (n1 + n2) mod 2^256 and MUL pushes (n1 * n2) mod 2^256; a
\* sum or product of 2^256 or more wraps and the run does not fail; the
\* result is the same with the two operands exchanged.
C13_AddMul ==
    [][ /\ Operating({1})
            => /\ outcome' = Running
               /\ Len(stack') = Len(stack) - 1
               /\ IsLowWordOf(stack'[Len(stack')], natAdd[TopN1.abs, TopN2.abs])
               /\ opAdd(SwappedTop, bytecode).evm.stack = stack'
        /\ Operating({2})
            => /\ outcome' = Running
               /\ Len(stack') = Len(stack) - 1
               /\ IsLowWordOf(stack'[Len(stack')], natMul[TopN1.abs, TopN2.abs])
               /\ opMul(SwappedTop, bytecode).evm.stack = stack' ]_vars

\* (2^256 - 1) + (2^256 - 1) has wrapped to 2^256 - 2
C13_Witness ==
    /\ outcome = Returned
    /\ bytecode = Push32Max \o Push32Max \o <<ADD>>
    /\ stack = <<bigInt[FALSE, [i \in 1..32 |-> IF i = 1 THEN 254 ELSE 255]]>>

\* the word whose big-endian bytes are the n bytes after the opcode at pc
BigEndianAfter(n) ==
    bigInt[FALSE, natNorm[[i \in 1..n |-> byteAt(bytecode, pc + n + 1 - i)]]]

\* C14: a generic PUSHn (0x61..0x7f) followed by at least n = op - 0x5f bytes
\* pushes one word, the big-endian value of those bytes, and moves pc past
\* them; PUSH2 0x01 0x02 pushes 258.
C14_GenericPush ==
    /\ [][ (Fetching(GenericPushes) /\ ~TruncatedAfter(opAt - 95))
              => /\ outcome' = Running
                 /\ stack' = Append(stack, BigEndianAfter(opAt - 95))
                 /\ pc' = pc + 1 + (opAt - 95) ]_vars
    /\ []( (bytecode = <<97, 1, 2>> /\ outcome = Returned)
              => (stack = <<bigInt[FALSE, <<2, 1>>]>> /\ pc = 3) )

\* PUSH2 0x01 0x02 has pushed 258 = 2 + 1 * 256 and the run has returned
C14_Witness ==
    /\ outcome = Returned
    /\ bytecode = <<97, 1, 2>>
    /\ pc = 3
    /\ stack = <<bigInt[FALSE, <<2, 1>>]>>

\* C15: in every reachable state, the failure states included, pc is an
\* index into the bytecode or its length: 0 <= pc <= len(bytecode).
C15_PcInBounds == 0 <= pc /\ pc <= Len(bytecode)

\* PUSH2 with one byte left has failed; pc is past the opcode only
C15_Witness ==
    /\ outcome = IndexOutOfRange
    /\ bytecode = <<96, 3, 97, 0>>
    /\ pc = 3
    /\ stack = <<bigNewInt[3]>>

\* C16: for an initial gas >= 0 the remaining gas is >= 0 in every reachable
\* state, and no step increases it, whether the run succeeds or fails.
C16_GasMonotone ==
    /\ [](initialGas >= 0 => gas >= 0)
    /\ [][ gas' <= gas ]_vars

\* PUSH1 3 has used up an initial gas of 3
C16_Witness ==
    /\ outcome = Returned
    /\ bytecode = <<96, 3>>
    /\ initialGas = 3
    /\ gas = 0

\* C17: the gas of a table opcode is charged before its handler runs: with
\* too little gas and too few operands the failure is "Out of gas", and when
\* the handler fails after the charge (too few operands, or PUSH1 without its
\* immediate byte) the remaining gas is already lower by the cost charged.
C17_GasBeforeHandler ==
    [][ /\ (Fetching(Arithmetic) /\ gas < gasCostOf(variant, opAt) /\ Len(stack) < 2)
            => outcome' = OutOfGas
        /\ (Fetching(TableKeys) /\ gas >= gasCostOf(variant, opAt)
                /\ outcome' \in Panics)
            => (outcome' # OutOfGas /\ gas' = gas - gasCostOf(variant, opAt)) ]_vars

\* MUL has failed on an empty stack after its 5 gas were charged
C17_Witness ==
    /\ outcome = IndexOutOfRange
    /\ variant = "table"
    /\ bytecode = <<2>>
    /\ initialGas = 1000
    /\ gas = 995

\* the gas execute charges in the round about to run
ChargedNow ==
    IF opAt \in TableKeys /\ gas >= gasCostOf(variant, opAt)
    THEN gasCostOf(variant, opAt)
    ELSE 0

FinalOf(v) ==
    execute[v, bytecode,
            [evm |-> [stack |-> <<>>, pc |-> 0, gas |-> initialGas],
             stop |-> FALSE, panic |-> NoPanic]]

\* the end of the current run
FinalNow == [outcome |-> outcome, stack |-> stack, pc |-> pc, gas |-> gas]

\* C19: the flat variant charges 3 for every table opcode and the table
\* variant the table cost; on a bytecode and an initial gas with which neither
\* runs out of gas, both end in the same way (returned, or the same failure)
\* with the same stack and the same pc.
C19_VariantsAgree ==
    /\ [][ (Fetching(TableKeys) /\ outcome' # OutOfGas)
              => gas' = gas - (IF variant = "flat" THEN 3 ELSE ClaimedCost[opAt]) ]_vars
    /\ []( (outcome # Running)
              => \A t \in {FinalOf("table")} :
                    IF variant = "table"
                    THEN t = FinalNow
                    ELSE (outcome # OutOfGas /\ t.outcome # OutOfGas)
                            => (t.outcome = outcome /\ t.stack = stack /\ t.pc = pc) )

\* the flat variant has run the program of main: 12 gas are spent, where the
\* table variant spends 11, and the stack is [25] as there
C19_Witness ==
    /\ outcome = Returned
    /\ variant = "flat"
    /\ bytecode = <<96, 5, 96, 5, 2, 0>>
    /\ initialGas = 1000
    /\ gas = 988
    /\ FinalOf("table").gas = 989
    /\ stack = <<bigNewInt[25]>>

\* C20: a successful ADD, MUL, SUB or DIV makes the stack one shorter, leaves
\* the elements below its two operands as they were, and moves pc by 1; a
\* successful PUSH1 or generic PUSHn makes the stack one longer and leaves
\* the elements it held as they were.
C20_StackEffect ==
    [][ /\ (Fetching(Arithmetic) /\ outcome' = Running)
            => /\ Len(stack') = Len(stack) - 1
               /\ SubSeq(stack', 1, Len(stack) - 2) = SubSeq(stack, 1, Len(stack) - 2)
               /\ pc' = pc + 1
        /\ (Fetching({96} \cup GenericPushes) /\ outcome' = Running)
            => /\ Len(stack') = Len(stack) + 1
               /\ SubSeq(stack', 1, Len(stack)) = stack ]_vars

\* DIV has run above a third word: of 7, 10, 3 the 7 is left below 10 / 3 = 3
C20_Witness ==
    /\ outcome = Running
    /\ bytecode = <<96, 7, 96, 10, 96, 3, 4, 1>>
    /\ pc = 7
    /\ stack = <<bigNewInt[7], bigNewInt[3]>>

====
